---- MODULE Spec2Model ----
(***************************************************************************)
(* AstraSync registry API: the transactional server of src/api-index.js    *)
(* (POST /v1/register, GET /v1/verify/:agentId, GET /v1/agent/:agentId,     *)
(* GET /v1/agents/recent, GET /v1/stats)                                   *)
(* over a PostgreSQL store reached through one pg connection pool.         *)
(*                                                                         *)
(* A handler is an async function: every `await` of a store call is one    *)
(* step of the model, and the synchronous code that runs when the awaited  *)
(* promise settles belongs to that step.  The store is read-committed: the *)
(* rows a transaction has inserted live in the transaction's own buffer    *)
(* until COMMIT moves them to the committed tables; every store call may   *)
(* fail.                                                                   *)
(***************************************************************************)
EXTENDS Integers, Sequences, FiniteSets, Bags, TLC

(* ---------------------------- bounds ----------------------------------- *)
\* number of register requests of a run
MaxReqs == 2
\* size of the pg pool (`max`), the number of clients that can be checked out:
\* greater than MaxReqs, so that only a run with further requests uses it up
PoolSize == 3
\* last value of the millisecond clock
MaxTime == 1
\* number of read requests (verify, getDetails, listRecent) of a run
MaxReads == 1
\* number of store calls that fail in a run
MaxFaults == 1

Reqs == 1..MaxReqs

\* the register requests of a run that has as many of them as the pool has
\* clients
Handlers == 1..PoolSize

(* ---------------------------- JS values -------------------------------- *)
\* a JavaScript value: undefined, a string (a sequence of characters), NaN,
\* an integer number or an array (a sequence of elements)
Undefined == [t |-> "undefined"]
Str(s) == [t |-> "string", v |-> s]
NaN == [t |-> "NaN"]
Num(n) == [t |-> "number", v |-> n]
Arr(s) == [t |-> "array", v |-> s]

\* JavaScript truthiness of a value: undefined, "", NaN and 0 are falsy, an
\* array is truthy
Truthy(x) ==
  \/ x.t = "string" /\ x.v # <<>>
  \/ x.t = "number" /\ x.v # 0
  \/ x.t = "array"

\* x.includes is a function: strings and arrays have the method
HasIncludes(x) == x.t \in {"string", "array"}

\* String.prototype.includes for a one-character needle, and
\* Array.prototype.includes for an array of one-character strings
Includes(x, c) == \E i \in 1..Len(x.v) : x.v[i] = c

\* a || b
OrElse(a, b) == IF Truthy(a) THEN a ELSE b

\* String.prototype.toLowerCase on the characters of the model's alphabet
LowerChar(c) == IF c = "A" THEN "a" ELSE IF c = "B" THEN "b" ELSE c
toLowerCase(x) == Str([i \in 1..Len(x.v) |-> LowerChar(x.v[i])])

(* ---------------------------- request bodies --------------------------- *)
NoAgent == [t |-> "undefined"]
Agent(n, o) == [t |-> "object", name |-> n, owner |-> o]

\* agent?.name
AgentName(a) == IF a.t = "object" THEN a.name ELSE Undefined

\* bodies that pass both validations
ValidBodies ==
  { [email |-> Str(<<"a", "@">>), agent |-> Agent(Str(<<"B">>), Str(<<"O">>))],
    [email |-> Str(<<"A", "@">>), agent |-> Agent(Str(<<"C">>), Str(<<"P">>))] }

\* bodies that fail one of them
InvalidBodies ==
  { [email |-> Undefined,         agent |-> Agent(Str(<<"B">>), Str(<<"O">>))],
    [email |-> Str(<<>>),         agent |-> Agent(Str(<<"B">>), Str(<<"O">>))],
    [email |-> Str(<<"a">>),      agent |-> Agent(Str(<<"B">>), Str(<<"O">>))],
    [email |-> Str(<<"a", "@">>), agent |-> NoAgent],
    [email |-> Str(<<"a", "@">>), agent |-> Agent(Str(<<>>), Str(<<"O">>))],
    [email |-> Str(<<"a", "@">>), agent |-> Agent(Str(<<"B">>), Undefined)] }

Bodies == ValidBodies \cup InvalidBodies

\* bodies whose email or agent.name is not a string
MalformedBodies ==
  { [email |-> Num(5),          agent |-> Agent(Str(<<"B">>), Str(<<"O">>))],
    [email |-> Arr(<<"@">>),    agent |-> Agent(Str(<<"B">>), Str(<<"O">>))],
    [email |-> Str(<<"a", "@">>), agent |-> Agent(Num(5), Str(<<"O">>))] }

NoBody == [email |-> Undefined, agent |-> NoAgent]

\* the values Math.random().toString(36) takes in the model
RandomStrings ==
  { <<"0", ".", "4", "f", "z", "y", "o", "8">>,
    <<"0", ".", "k", "2", "x", "9", "q", "1">> }

VARIABLES
  agents,                 \* committed rows of table agents
  email_queue,            \* committed rows of table email_queue, in insert order
  registration_attempts,  \* committed rows of table registration_attempts
  pc,                     \* per register request: the await it is suspended at
  body,                   \* per register request: req.body
  client,                 \* per register request: "none", "held", "released"
  tempId,                 \* per register request: the generated public id
  timestamp,              \* per register request: new Date() of the handler
  txAgents,               \* per register request: agents rows inserted, not committed
  txEmail,                \* per register request: email_queue rows inserted, not committed
  resp,                   \* per register request: the response sent (or NoResp)
  fault,                  \* per register request: the store call that failed
  now,                    \* Date.now()
  faults,                 \* number of store calls that have failed
  reads,                  \* number of read requests received
  readPc,                 \* the await the verify handler is suspended at
  readId,                 \* req.params.agentId of the verify handler
  lastRead,               \* the latest read request served and its response
  queryLimit,             \* req.query.limit of the listRecent handler
  recentAgents,           \* recentAgents of the listRecent handler
  statsResults            \* the results the stats handler has received so far

vars == <<agents, email_queue, registration_attempts, pc, body, client, tempId,
          timestamp, txAgents, txEmail, resp, fault, now, faults, reads, readPc, readId, lastRead,
          queryLimit, recentAgents, statsResults>>

NoResp == [status |-> 0]
NoId == <<>>
NoRead == [op |-> "none", id |-> NoId, email |-> [t |-> "undefined"], res |-> NoResp]

(* ---------------------------- identifiers ------------------------------ *)
\* String.prototype.substring(from, to) on a character sequence (0-based,
\* `to` exclusive, clipped to the length)
substring(s, from, to) ==
  LET hi == IF to < Len(s) THEN to ELSE Len(s)
  IN  IF from >= hi THEN <<>> ELSE [i \in 1..(hi - from) |-> s[from + i]]

UpperChar(c) ==
  CASE c = "f" -> "F" [] c = "z" -> "Z" [] c = "y" -> "Y" [] c = "o" -> "O"
    [] c = "k" -> "K" [] c = "x" -> "X" [] c = "q" -> "Q" [] c = "i" -> "I"
    [] OTHER -> c
toUpperCase(s) == [i \in 1..Len(s) |-> UpperChar(s[i])]

\* generateTempId with Date.now() = t and Math.random().toString(36) = rnd
generateTempId(t, rnd) ==
  [prefix |-> "TEMP", ts |-> t, suffix |-> toUpperCase(substring(rnd, 2, 8))]

\* uuidv4(): a fresh value at every call; a request calls it at most once at
\* each of its two call sites
uuidv4(r, site) == <<"uuid", r, site>>

\* values of Math.random().toString(36): those of RandomStrings, "0" for
\* Math.random() = 0 and "0.i" for Math.random() = 0.5
RandomValues == RandomStrings \cup {<<"0">>, <<"0", ".", "i">>}

(* ---------------------------- the pool --------------------------------- *)
\* clients of the pool that are not checked out
PoolFree == PoolSize - Cardinality({r \in Handlers : client[r] = "held"})

\* a store call (a query on a client, or the pool handing out a client) fails
StoreFault ==
  /\ faults < MaxFaults
  /\ faults' = faults + 1

(* ---------------------------- rows ------------------------------------- *)
Null == [t |-> "null"]
OrNull(x) == IF Truthy(x) THEN x ELSE Null

\* the row logAttempt inserts into registration_attempts
\* (error is the member `error` of the data column, null when data has none)
AttemptRow(eventType, email, agentName) ==
  [event_type |-> eventType, email |-> OrNull(email),
   agent_name |-> OrNull(agentName), source |-> "direct-api", error |-> Null]

\* the row of the catch block of register: data = {error: error.message, ...}
ErrorAttemptRow(email, agentName, message) ==
  [AttemptRow("registration_error", email, agentName) EXCEPT !.error = message]

\* logAttempt: pool.query inserts the row, or fails and the error is swallowed
logAttempt(row) ==
  /\ PoolFree > 0
  /\ \/ /\ registration_attempts' = registration_attempts (+) SetToBag({row})
        /\ UNCHANGED faults
     \/ /\ StoreFault
        /\ UNCHANGED registration_attempts

\* agentData with the name and owner fields exchanged
AgentData_swapped(a) ==
  [name |-> a.owner, description |-> Str(<<>>), owner |-> a.name,
   ownerUrl |-> Str(<<>>), capabilities |-> <<>>,
   version |-> Str(<<"1", ".", "0", ".", "0">>)]

\* agentData and the agents row of request r (field req records the request
\* that inserted the row)
AgentData(a) ==
  [name |-> a.name, description |-> Str(<<>>), owner |-> a.owner,
   ownerUrl |-> Str(<<>>), capabilities |-> <<>>,
   version |-> Str(<<"1", ".", "0", ".", "0">>)]

AgentsRow(r, internalId) ==
  [id |-> tempId[r], internal_id |-> internalId, email |-> body[r].email,
   status |-> "registered", blockchain_status |-> "pending",
   trust_score |-> "TEMP-95%", registered_at |-> timestamp[r],
   agent_data |-> AgentData(body[r].agent),
   metadata |-> [registrationMethod |-> "api", source |-> "direct-api"],
   req |-> r]

EmailRow(r) ==
  [recipient |-> body[r].email, subject |-> "AstraSync Agent Registration Confirmed",
   template |-> "registration_confirmed",
   data |-> [agentId |-> tempId[r], agentName |-> body[r].agent.name,
             timestamp |-> timestamp[r]],
   req |-> r]

(* ---------------------------- validation ------------------------------- *)
\* the email check without the test for '@'
ValidEmail_truthy(email) == Truthy(email)

\* !(!email || !email.includes('@'))
ValidEmail(email) == Truthy(email) /\ Includes(email, "@")

\* the agent check without the test of owner
ValidAgent_nameOnly(agent) == agent.t = "object" /\ Truthy(agent.name)

\* !(!agent || !agent.name || !agent.owner)
ValidAgent(agent) ==
  agent.t = "object" /\ Truthy(agent.name) /\ Truthy(agent.owner)

(* ---------------------------- responses -------------------------------- *)
InvalidEmailResp == [status |-> 400, error |-> "Valid email address is required"]
IncompleteAgentResp == [status |-> 400, error |-> "Incomplete agent data"]
CreatedResp(r) ==
  [status |-> 201, agentId |-> tempId[r], agentStatus |-> "registered",
   blockchain |-> "pending", trustScore |-> "TEMP-95%",
   registeredAt |-> timestamp[r]]
ServerErrorResp(id) ==
  [status |-> 500, error |-> "Internal server error", requestId |-> id]

(* ---------------------------- initial state ---------------------------- *)
\* the state after start-up, with f store calls already failed and n read
\* requests already received
InitWith(f, n) ==
  /\ agents = {}
  /\ email_queue = <<>>
  /\ registration_attempts = EmptyBag
  /\ pc = [r \in Handlers |-> "idle"]
  /\ body = [r \in Handlers |-> NoBody]
  /\ client = [r \in Handlers |-> "none"]
  /\ tempId = [r \in Handlers |-> NoId]
  /\ timestamp = [r \in Handlers |-> 0]
  /\ txAgents = [r \in Handlers |-> {}]
  /\ txEmail = [r \in Handlers |-> <<>>]
  /\ resp = [r \in Handlers |-> NoResp]
  /\ fault = [r \in Handlers |-> {}]
  /\ now = 0
  /\ faults = f
  /\ reads = n
  /\ readPc = "idle"
  /\ readId = NoId
  /\ lastRead = NoRead
  /\ queryLimit = Undefined
  /\ recentAgents = <<>>
  /\ statsResults = <<>>

Init == InitWith(0, 0)

store == <<agents, email_queue, registration_attempts>>
lister == <<queryLimit, recentAgents>>
reader == <<reads, readPc, readId, lastRead, lister, statsResults>>

(* ---------------------------- POST /v1/register ------------------------ *)
\* request r arrives: the requests are numbered in the order of arrival
Arrives(r) ==
  /\ pc[r] = "idle"
  /\ \A q \in Handlers : q < r => pc[q] # "idle"

\* const client = await pool.connect(), then the call of logAttempt
Connect(r, b) ==
  /\ Arrives(r)
  /\ PoolFree > 0
  /\ body' = [body EXCEPT ![r] = b]
  /\ client' = [client EXCEPT ![r] = "held"]
  /\ pc' = [pc EXCEPT ![r] = "log_attempt"]
  /\ UNCHANGED <<store, tempId, timestamp, txAgents, txEmail, resp, fault,
                 now, faults, reader>>

\* pool.connect() rejects: it is awaited outside the try block, the handler's
\* promise rejects and Express 4 sends nothing
ConnectFail(r, b) ==
  /\ Arrives(r)
  /\ PoolFree > 0
  /\ StoreFault
  /\ body' = [body EXCEPT ![r] = b]
  /\ fault' = [fault EXCEPT ![r] = {"connect"}]
  /\ pc' = [pc EXCEPT ![r] = "done"]
  /\ UNCHANGED <<store, client, tempId, timestamp, txAgents, txEmail, resp,
                 now, reader>>

\* logAttempt('registration_attempt') settles; validation; id generation
LogAttemptDone(r) ==
  /\ pc[r] = "log_attempt"
  /\ logAttempt(AttemptRow("registration_attempt", body[r].email,
                           AgentName(body[r].agent)))
  /\ IF Truthy(body[r].email) /\ ~HasIncludes(body[r].email)
       THEN \* email.includes is not a function: TypeError, to the catch block
            /\ pc' = [pc EXCEPT ![r] = "ROLLBACK"]
            /\ UNCHANGED <<tempId, timestamp>>
     ELSE IF ~ValidEmail(body[r].email)
       THEN /\ pc' = [pc EXCEPT ![r] = "log_failed_email"]
            /\ UNCHANGED <<tempId, timestamp>>
     ELSE IF ~ValidAgent(body[r].agent)
       THEN /\ pc' = [pc EXCEPT ![r] = "log_failed_agent"]
            /\ UNCHANGED <<tempId, timestamp>>
     ELSE /\ \E rnd \in RandomStrings :
               tempId' = [tempId EXCEPT ![r] = generateTempId(now, rnd)]
          /\ timestamp' = [timestamp EXCEPT ![r] = now]
          /\ pc' = [pc EXCEPT ![r] = "BEGIN"]
  /\ UNCHANGED <<agents, email_queue, body, client, txAgents, txEmail, resp,
                 fault, now, reader>>

\* logAttempt('registration_failed') settles; 400; finally client.release()
LogFailedDone(r) ==
  /\ pc[r] \in {"log_failed_email", "log_failed_agent"}
  /\ IF pc[r] = "log_failed_email"
       THEN /\ logAttempt(AttemptRow("registration_failed",
                                     OrElse(body[r].email, Str(<<"i", "n", "v">>)),
                                     AgentName(body[r].agent)))
            /\ resp' = [resp EXCEPT ![r] = InvalidEmailResp]
       ELSE /\ logAttempt(AttemptRow("registration_failed", body[r].email,
                                     OrElse(AgentName(body[r].agent),
                                            Str(<<"m", "i", "s">>))))
            /\ resp' = [resp EXCEPT ![r] = IncompleteAgentResp]
  /\ client' = [client EXCEPT ![r] = "released"]
  /\ pc' = [pc EXCEPT ![r] = "done"]
  /\ UNCHANGED <<agents, email_queue, body, tempId, timestamp, txAgents,
                 txEmail, fault, now, reader>>

\* a store call of the handler rejects: control goes to the catch block
Throw(r, step) ==
  /\ StoreFault
  /\ fault' = [fault EXCEPT ![r] = @ \cup {step}]
  /\ pc' = [pc EXCEPT ![r] = "ROLLBACK"]

\* await client.query('BEGIN')
Begin(r) ==
  /\ pc[r] = "BEGIN"
  /\ \/ /\ pc' = [pc EXCEPT ![r] = "INSERT_agents"]
        /\ UNCHANGED <<fault, faults>>
     \/ Throw(r, "BEGIN")
  /\ UNCHANGED <<store, body, client, tempId, timestamp, txAgents, txEmail,
                 resp, now, reader>>

\* an INSERT that does not wait for an open transaction holding its id
IdLockedByOther_never(r) == FALSE

\* some other transaction has inserted a row with this id and has not ended:
\* the INSERT waits for that transaction
IdLockedByOther(r) ==
  \E q \in Handlers \ {r} : \E row \in txAgents[q] : row.id = tempId[r]

\* agents without a primary key on id
IdTaken_never(id) == FALSE

\* the PRIMARY KEY of agents: a committed row has this id
IdTaken(id) == \E row \in agents : row.id = id

\* the agents INSERT sent through pool.query: it commits on its own
InsertAgents_autocommit(r) ==
  /\ pc[r] = "INSERT_agents"
  /\ ~IdLockedByOther(r)
  /\ \/ /\ ~IdTaken(tempId[r])
        /\ agents' = agents \cup {AgentsRow(r, uuidv4(r, "internalId"))}
        /\ pc' = [pc EXCEPT ![r] = "INSERT_email"]
        /\ UNCHANGED <<fault, faults>>
     \/ /\ IdTaken(tempId[r])
        /\ fault' = [fault EXCEPT ![r] = @ \cup {"INSERT_agents"}]
        /\ pc' = [pc EXCEPT ![r] = "ROLLBACK"]
        /\ UNCHANGED <<agents, faults>>
     \/ /\ Throw(r, "INSERT_agents")
        /\ UNCHANGED agents
  /\ UNCHANGED <<email_queue, registration_attempts, body, client, tempId,
                 timestamp, txAgents, txEmail, resp, now, reader>>

\* the agents INSERT with ON CONFLICT (id) DO NOTHING: a duplicate id is
\* skipped without an error
InsertAgents_onConflictDoNothing(r) ==
  /\ pc[r] = "INSERT_agents"
  /\ ~IdLockedByOther(r)
  /\ \/ /\ txAgents' = [txAgents EXCEPT ![r] =
                          IF IdTaken(tempId[r]) THEN @
                          ELSE @ \cup {AgentsRow(r, uuidv4(r, "internalId"))}]
        /\ pc' = [pc EXCEPT ![r] = "INSERT_email"]
        /\ UNCHANGED <<fault, faults>>
     \/ /\ Throw(r, "INSERT_agents")
        /\ UNCHANGED txAgents
  /\ UNCHANGED <<store, body, client, tempId, timestamp, txEmail, resp, now,
                 reader>>

\* await client.query('INSERT INTO agents ...'): the row is written inside
\* the client's transaction; a duplicate id violates the primary key
InsertAgents(r) ==
  /\ pc[r] = "INSERT_agents"
  /\ ~IdLockedByOther(r)
  /\ \/ /\ ~IdTaken(tempId[r])
        /\ txAgents' = [txAgents EXCEPT
                          ![r] = @ \cup {AgentsRow(r, uuidv4(r, "internalId"))}]
        /\ pc' = [pc EXCEPT ![r] = "INSERT_email"]
        /\ UNCHANGED <<fault, faults>>
     \/ /\ IdTaken(tempId[r])
        /\ fault' = [fault EXCEPT ![r] = @ \cup {"INSERT_agents"}]
        /\ pc' = [pc EXCEPT ![r] = "ROLLBACK"]
        /\ UNCHANGED <<txAgents, faults>>
     \/ /\ Throw(r, "INSERT_agents")
        /\ UNCHANGED txAgents
  /\ UNCHANGED <<store, body, client, tempId, timestamp, txEmail, resp, now,
                 reader>>

\* the email_queue INSERT sent through pool.query: it commits on its own
InsertEmail_autocommit(r) ==
  /\ pc[r] = "INSERT_email"
  /\ \/ /\ email_queue' = Append(email_queue, EmailRow(r))
        /\ pc' = [pc EXCEPT ![r] = "COMMIT"]
        /\ UNCHANGED <<fault, faults>>
     \/ /\ Throw(r, "INSERT_email")
        /\ UNCHANGED email_queue
  /\ UNCHANGED <<agents, registration_attempts, body, client, tempId, timestamp,
                 txAgents, txEmail, resp, now, reader>>

\* await client.query('INSERT INTO email_queue ...')
InsertEmail(r) ==
  /\ pc[r] = "INSERT_email"
  /\ \/ /\ txEmail' = [txEmail EXCEPT ![r] = Append(@, EmailRow(r))]
        /\ pc' = [pc EXCEPT ![r] = "COMMIT"]
        /\ UNCHANGED <<fault, faults>>
     \/ /\ Throw(r, "INSERT_email")
        /\ UNCHANGED txEmail
  /\ UNCHANGED <<store, body, client, tempId, timestamp, txAgents, resp, now,
                 reader>>

\* await client.query('COMMIT'): the rows of the transaction become visible
\* to the other connections, all in one step
Commit(r) ==
  /\ pc[r] = "COMMIT"
  /\ \/ /\ agents' = agents \cup txAgents[r]
        /\ email_queue' = email_queue \o txEmail[r]
        /\ txAgents' = [txAgents EXCEPT ![r] = {}]
        /\ txEmail' = [txEmail EXCEPT ![r] = <<>>]
        /\ pc' = [pc EXCEPT ![r] = "log_success"]
        /\ UNCHANGED <<fault, faults>>
     \/ /\ Throw(r, "COMMIT")
        /\ UNCHANGED <<agents, email_queue, txAgents, txEmail>>
  /\ UNCHANGED <<registration_attempts, body, client, tempId, timestamp, resp,
                 now, reader>>

\* logAttempt('registration_success') settles; 201; finally client.release()
LogSuccessDone(r) ==
  /\ pc[r] = "log_success"
  /\ logAttempt(AttemptRow("registration_success", body[r].email,
                           body[r].agent.name))
  /\ resp' = [resp EXCEPT ![r] = CreatedResp(r)]
  /\ client' = [client EXCEPT ![r] = "released"]
  /\ pc' = [pc EXCEPT ![r] = "done"]
  /\ UNCHANGED <<agents, email_queue, body, tempId, timestamp, txAgents,
                 txEmail, fault, now, reader>>

\* the catch block with client.release() after its last statement instead of
\* in a finally block: a ROLLBACK that rejects leaves the client checked out
Rollback_releaseAfterCatch(r) ==
  /\ pc[r] = "ROLLBACK"
  /\ txAgents' = [txAgents EXCEPT ![r] = {}]
  /\ txEmail' = [txEmail EXCEPT ![r] = <<>>]
  /\ \/ /\ pc' = [pc EXCEPT ![r] = "log_error"]
        /\ UNCHANGED <<client, fault, faults>>
     \/ /\ StoreFault
        /\ fault' = [fault EXCEPT ![r] = @ \cup {"ROLLBACK"}]
        /\ pc' = [pc EXCEPT ![r] = "done"]
        /\ UNCHANGED client
  /\ UNCHANGED <<store, body, tempId, timestamp, resp, now, reader>>

\* the catch block undoing the registration with DELETE ... WHERE id = tempId
\* next to the ROLLBACK
Rollback_deleteById(r) ==
  /\ pc[r] = "ROLLBACK"
  /\ txAgents' = [txAgents EXCEPT ![r] = {}]
  /\ txEmail' = [txEmail EXCEPT ![r] = <<>>]
  /\ agents' = {row \in agents : row.id # tempId[r]}
  /\ \/ /\ pc' = [pc EXCEPT ![r] = "log_error"]
        /\ UNCHANGED <<client, fault, faults>>
     \/ /\ StoreFault
        /\ fault' = [fault EXCEPT ![r] = @ \cup {"ROLLBACK"}]
        /\ client' = [client EXCEPT ![r] = "released"]
        /\ pc' = [pc EXCEPT ![r] = "done"]
  /\ UNCHANGED <<email_queue, registration_attempts, body, tempId, timestamp,
                 resp, now, reader>>

\* catch: await client.query('ROLLBACK').  The rows of the transaction are
\* discarded; when ROLLBACK itself rejects (the connection is lost, and the
\* server ends the transaction) the catch block throws, nothing is sent, and
\* finally releases the client
Rollback(r) ==
  /\ pc[r] = "ROLLBACK"
  /\ txAgents' = [txAgents EXCEPT ![r] = {}]
  /\ txEmail' = [txEmail EXCEPT ![r] = <<>>]
  /\ \/ /\ pc' = [pc EXCEPT ![r] = "log_error"]
        /\ UNCHANGED <<client, fault, faults>>
     \/ /\ StoreFault
        /\ fault' = [fault EXCEPT ![r] = @ \cup {"ROLLBACK"}]
        /\ client' = [client EXCEPT ![r] = "released"]
        /\ pc' = [pc EXCEPT ![r] = "done"]
  /\ UNCHANGED <<store, body, tempId, timestamp, resp, now, reader>>

\* error.message of the error the catch block of register has caught: the
\* store call that rejected, the TypeError of the email check, or the
\* primary-key conflict of the agents INSERT
ErrorMessage(r) ==
  Str(<<IF fault[r] # {} THEN CHOOSE step \in fault[r] : TRUE
        ELSE IF ~HasIncludes(body[r].email)
          THEN "email.includes is not a function"
        ELSE "duplicate key value violates unique constraint">>)

\* logAttempt('registration_error') settles; 500 with requestId: uuidv4()
LogErrorDone(r) ==
  /\ pc[r] = "log_error"
  /\ logAttempt(ErrorAttemptRow(OrElse(body[r].email, Str(<<"u", "n", "k">>)),
                                OrElse(AgentName(body[r].agent), Str(<<"u", "n", "k">>)),
                                ErrorMessage(r)))
  /\ resp' = [resp EXCEPT ![r] = ServerErrorResp(uuidv4(r, "requestId"))]
  /\ client' = [client EXCEPT ![r] = "released"]
  /\ pc' = [pc EXCEPT ![r] = "done"]
  /\ UNCHANGED <<agents, email_queue, body, tempId, timestamp, txAgents,
                 txEmail, fault, now, reader>>

register == <<pc, body, client, tempId, timestamp, txAgents, txEmail, resp, fault>>

(* ---------------------------- GET /v1/verify/:agentId ------------------ *)
\* the ids a caller asks for: the ids generateTempId can return at time 0
Ids == {generateTempId(0, rnd) : rnd \in RandomStrings}

\* the SELECT reading the rows of open transactions too
SelectAgent_dirty(id) ==
  {row \in agents \cup UNION {txAgents[r] : r \in Handlers} : row.id = id}

\* SELECT * FROM agents WHERE id = $1, on the committed rows
SelectAgent(id) == {row \in agents : row.id = id}

ReadErrorResp == [status |-> 500, error |-> "Internal server error"]

\* a read request (operation, req.params.agentId, req.query.email) and the
\* response sent for it
Served(op, id, email, res) == [op |-> op, id |-> id, email |-> email, res |-> res]

\* the public view with the owner's email added to it
VerifyView_withEmail(agent) ==
  [status |-> 200, agentId |-> agent.id, agentStatus |-> agent.status,
   blockchain |-> agent.blockchain_status,
   trustScore |-> agent.trust_score,
   agent |-> [name |-> agent.agent_data.name,
              owner |-> agent.agent_data.owner,
              version |-> agent.agent_data.version,
              contact |-> agent.email],
   registeredAt |-> agent.registered_at, verified |-> TRUE]

\* the body verify sends for the row it has found
VerifyView(agent) ==
  [status |-> 200, agentId |-> agent.id, agentStatus |-> agent.status,
   blockchain |-> agent.blockchain_status,
   trustScore |-> agent.trust_score,
   agent |-> [name |-> agent.agent_data.name,
              owner |-> agent.agent_data.owner,
              version |-> agent.agent_data.version],
   registeredAt |-> agent.registered_at, verified |-> TRUE]

\* the response of verify when the SELECT succeeds
VerifyResponse(id) ==
  IF SelectAgent(id) = {}
    THEN [status |-> 404, error |-> "Agent not found", agentId |-> id]
    ELSE VerifyView(CHOOSE row \in SelectAgent(id) : TRUE)

\* the request arrives; the handler calls logAttempt('verification_attempt')
VerifyStart(id) ==
  /\ readPc = "idle"
  /\ reads < MaxReads
  /\ reads' = reads + 1
  /\ readId' = id
  /\ readPc' = "verify_log"
  /\ UNCHANGED <<store, register, now, faults, lastRead, lister, statsResults>>

\* logAttempt settles; the handler calls pool.query(SELECT)
VerifyLogDone ==
  /\ readPc = "verify_log"
  /\ logAttempt(AttemptRow("verification_attempt", Null, Null))
  /\ readPc' = "verify_query"
  /\ UNCHANGED <<agents, email_queue, register, now, reads, readId, lastRead,
                 lister, statsResults>>

\* the SELECT settles: 200 or 404, or 500 from the catch block
VerifyQueryDone ==
  /\ readPc = "verify_query"
  /\ PoolFree > 0
  /\ \/ /\ lastRead' = Served("verify", readId, Undefined, VerifyResponse(readId))
        /\ UNCHANGED faults
     \/ /\ StoreFault
        /\ lastRead' = Served("verify", readId, Undefined, ReadErrorResp)
  /\ readPc' = "idle"
  /\ UNCHANGED <<store, register, now, reads, readId, lister, statsResults>>

(* ---------------------------- GET /v1/agent/:agentId ------------------- *)
\* the values of req.query.email
QueryEmails == {Undefined, Str(<<>>), Str(<<"A", "@">>), Str(<<"b", "@">>)}

\* the ownership check made before the test for a missing row
DetailsResponse_ownerFirst(id, email) ==
  IF \A row \in SelectAgent(id) : toLowerCase(email) # toLowerCase(row.email)
    THEN [status |-> 403, error |-> "Unauthorized"]
    ELSE LET agent == CHOOSE row \in SelectAgent(id) : TRUE
         IN  [status |-> 200, id |-> agent.id,
              internalId |-> agent.internal_id, email |-> agent.email,
              agentStatus |-> agent.status,
              blockchainStatus |-> agent.blockchain_status,
              trustScore |-> agent.trust_score,
              registeredAt |-> agent.registered_at,
              agent |-> agent.agent_data, metadata |-> agent.metadata]

\* the ownership check comparing the two emails as they are
DetailsResponse_caseSensitive(id, email) ==
  IF SelectAgent(id) = {}
    THEN [status |-> 404, error |-> "Agent not found"]
    ELSE LET agent == CHOOSE row \in SelectAgent(id) : TRUE
         IN  IF email # agent.email
               THEN [status |-> 403, error |-> "Unauthorized"]
               ELSE [status |-> 200, id |-> agent.id,
                     internalId |-> agent.internal_id, email |-> agent.email,
                     agentStatus |-> agent.status,
                     blockchainStatus |-> agent.blockchain_status,
                     trustScore |-> agent.trust_score,
                     registeredAt |-> agent.registered_at,
                     agent |-> agent.agent_data, metadata |-> agent.metadata]

\* the response of getDetails when the SELECT succeeds
DetailsResponse(id, email) ==
  IF SelectAgent(id) = {}
    THEN [status |-> 404, error |-> "Agent not found"]
    ELSE LET agent == CHOOSE row \in SelectAgent(id) : TRUE
         IN  IF toLowerCase(email) # toLowerCase(agent.email)
               THEN [status |-> 403, error |-> "Unauthorized"]
               ELSE [status |-> 200, id |-> agent.id,
                     internalId |-> agent.internal_id, email |-> agent.email,
                     agentStatus |-> agent.status,
                     blockchainStatus |-> agent.blockchain_status,
                     trustScore |-> agent.trust_score,
                     registeredAt |-> agent.registered_at,
                     agent |-> agent.agent_data, metadata |-> agent.metadata]

\* getDetails calling logAttempt as verify does
GetDetails_logged(id, email) ==
  /\ readPc = "idle"
  /\ reads < MaxReads
  /\ reads' = reads + 1
  /\ PoolFree > 0
  /\ registration_attempts' =
       registration_attempts (+) SetToBag({AttemptRow("details_attempt", email, Null)})
  /\ lastRead' = Served("details", id, email,
                        IF Truthy(email) THEN DetailsResponse(id, email)
                        ELSE [status |-> 400, error |-> "Email required"])
  /\ UNCHANGED <<agents, email_queue, register, now, faults, readPc, readId,
                 lister, statsResults>>

\* the whole handler: 400 without a query when email is missing, else one
\* pool.query(SELECT) and the response built from its result
GetDetails(id, email) ==
  /\ readPc = "idle"
  /\ reads < MaxReads
  /\ reads' = reads + 1
  /\ IF ~Truthy(email)
       THEN /\ lastRead' = Served("details", id, email,
                                  [status |-> 400, error |-> "Email required"])
            /\ UNCHANGED faults
       ELSE /\ PoolFree > 0
            /\ \/ /\ lastRead' = Served("details", id, email,
                                        DetailsResponse(id, email))
                  /\ UNCHANGED faults
               \/ /\ StoreFault
                  /\ lastRead' = Served("details", id, email, ReadErrorResp)
  /\ UNCHANGED <<store, register, now, readPc, readId, lister, statsResults>>

(* ---------------------------- GET /v1/agents/recent -------------------- *)
\* the value of a decimal digit, -1 for any other character
DigitValue(c) ==
  CASE c = "0" -> 0 [] c = "1" -> 1 [] c = "2" -> 2 [] c = "3" -> 3
    [] c = "4" -> 4 [] c = "5" -> 5 [] c = "6" -> 6 [] c = "7" -> 7
    [] c = "8" -> 8 [] c = "9" -> 9 [] OTHER -> -1

\* the number of decimal digits s starts with
RECURSIVE LeadingDigits(_)
LeadingDigits(s) ==
  IF s = <<>> \/ DigitValue(Head(s)) < 0 THEN 0 ELSE 1 + LeadingDigits(Tail(s))

\* the number the first k characters of s denote
RECURSIVE DecimalValue(_, _)
DecimalValue(s, k) ==
  IF k = 0 THEN 0 ELSE 10 * DecimalValue(s, k - 1) + DigitValue(s[k])

\* parseInt(x): an optional sign and the longest prefix of decimal digits;
\* NaN when there is no digit (undefined is converted to "undefined")
parseInt(x) ==
  IF x.t # "string" THEN NaN
  ELSE LET signed == x.v # <<>> /\ Head(x.v) \in {"-", "+"}
           digits == IF signed THEN Tail(x.v) ELSE x.v
           k == LeadingDigits(digits)
       IN  IF k = 0 THEN NaN
           ELSE IF signed /\ Head(x.v) = "-"
                  THEN Num(0 - DecimalValue(digits, k))
                  ELSE Num(DecimalValue(digits, k))

\* Math.min of two numbers
MathMin(a, b) == IF a.v < b.v THEN a ELSE b

\* const limit = Math.min(parseInt(req.query.limit) || 10, 100)
Limit(q) == MathMin(OrElse(parseInt(q), Num(10)), Num(100))

\* the values of req.query.limit
QueryLimits ==
  { Undefined, Str(<<"x">>), Str(<<"0">>), Str(<<"-", "1">>), Str(<<"1">>),
    Str(<<"2">>), Str(<<"5", "0", "0">>) }

\* row => ({agentId, name, owner, registeredAt, trustScore})
Summary(row) ==
  [agentId |-> row.id, name |-> row.agent_data.name,
   owner |-> row.agent_data.owner, registeredAt |-> row.registered_at,
   trustScore |-> row.trust_score]

\* the results the store can give for SELECT ... FROM agents ORDER BY
\* registered_at DESC LIMIT n (n >= 0): rows of equal registered_at come in
\* any order
SelectRecent(n) ==
  LET k == IF n < Cardinality(agents) THEN n ELSE Cardinality(agents)
  IN  { rows \in [1..k -> agents] :
          /\ \A i, j \in 1..k : i < j =>
                /\ rows[i] # rows[j]
                /\ rows[i].registered_at >= rows[j].registered_at
          /\ \A row \in agents :
                (\A i \in 1..k : rows[i] # row) =>
                  \A i \in 1..k : rows[i].registered_at >= row.registered_at }

\* the body the catch block sends, with status 200
RecentErrorResp ==
  [status |-> 200, agents |-> <<>>, total |-> 0, returned |-> 0,
   error |-> "Failed to fetch recent agents"]

RecentResp(list, count) ==
  [status |-> 200, agents |-> list, total |-> count, returned |-> Len(list)]

\* listRecent logging an attempt as verify does
ListStart_logged(q) ==
  /\ readPc = "idle"
  /\ reads < MaxReads
  /\ reads' = reads + 1
  /\ queryLimit' = q
  /\ readPc' = "list_query"
  /\ registration_attempts' =
       registration_attempts (+) SetToBag({AttemptRow("list_attempt", Null, Null)})
  /\ UNCHANGED <<agents, email_queue, register, now, faults, readId, lastRead,
                 recentAgents, statsResults>>

\* the request arrives; the handler computes limit and calls
\* pool.query(SELECT ... LIMIT $1)
ListStart(q) ==
  /\ readPc = "idle"
  /\ reads < MaxReads
  /\ reads' = reads + 1
  /\ queryLimit' = q
  /\ readPc' = "list_query"
  /\ UNCHANGED <<store, register, now, faults, readId, lastRead, recentAgents,
                 statsResults>>

\* the catch block of listRecent answers and the handler ends
ListFailed ==
  /\ lastRead' = Served("list", NoId, Undefined, RecentErrorResp)
  /\ queryLimit' = Undefined
  /\ recentAgents' = <<>>
  /\ readPc' = "idle"

\* the SELECT settles: the rows are mapped to recentAgents and the handler
\* calls pool.query(SELECT COUNT(*)); the store rejects a negative LIMIT
ListQueryDone ==
  /\ readPc = "list_query"
  /\ PoolFree > 0
  /\ \/ /\ Limit(queryLimit).v >= 0
        /\ \E rows \in SelectRecent(Limit(queryLimit).v) :
             recentAgents' = [i \in 1..Len(rows) |-> Summary(rows[i])]
        /\ readPc' = "list_count"
        /\ UNCHANGED <<faults, lastRead, queryLimit>>
     \/ /\ Limit(queryLimit).v < 0
        /\ ListFailed
        /\ UNCHANGED faults
     \/ /\ StoreFault
        /\ ListFailed
  /\ UNCHANGED <<store, register, now, reads, readId, statsResults>>

\* the COUNT settles: 200 with agents, total and returned
ListCountDone ==
  /\ readPc = "list_count"
  /\ PoolFree > 0
  /\ \/ /\ lastRead' = Served("list", NoId, Undefined,
                                RecentResp(recentAgents, Cardinality(agents)))
        /\ queryLimit' = Undefined
        /\ recentAgents' = <<>>
        /\ readPc' = "idle"
        /\ UNCHANGED faults
     \/ /\ StoreFault
        /\ ListFailed
  /\ UNCHANGED <<store, register, now, reads, readId, statsResults>>

(* ---------------------------- GET /v1/stats ---------------------------- *)
\* SELECT COUNT(*) FROM registration_attempts WHERE event_type = e
CountEvents(e) ==
  BagCardinality([row \in {x \in BagToSet(registration_attempts) : x.event_type = e}
                    |-> CopiesIn(row, registration_attempts)])

\* ((totalAgents / totalAttempts) * 100).toFixed(2), in hundredths of a
\* percent, or 'N/A'
ConversionRate(totalAgents, totalAttempts) ==
  IF totalAttempts > 0
    THEN [t |-> "percent",
          hundredths |-> (20000 * totalAgents + totalAttempts) \div (2 * totalAttempts)]
    ELSE [t |-> "N/A"]

\* the body /v1/stats sends when its seven queries succeed (without the
\* server's clock and uptime)
StatsResponse ==
  LET totalAgents == Cardinality(agents)
      totalAttempts == BagCardinality(registration_attempts)
  IN  [status |-> 200, totalAgents |-> totalAgents,
       last24Hours |-> Cardinality({row \in agents : row.registered_at > now - 86400000}),
       blockchainStatus |-> "pending_audit",
       emailQueueSize |-> Len(email_queue),
       totalAttempts |-> totalAttempts,
       failedAttempts |-> CountEvents("registration_failed"),
       errorCount |-> CountEvents("registration_error"),
       conversionRate |-> ConversionRate(totalAgents, totalAttempts),
       eventBreakdown |->
         [e \in {row.event_type : row \in BagToSet(registration_attempts)}
            |-> CountEvents(e)]]

\* the seven queries of Promise.all([...]), by the name of their result
StatsQueries ==
  {"totalResult", "recentResult", "emailResult", "attemptsResult",
   "failedResult", "errorResult", "attemptBreakdown"}

\* the result of query q on the committed store of the moment it runs
QueryResult(q, last24h) ==
  CASE q = "totalResult" -> Cardinality(agents)
    [] q = "recentResult" ->
         Cardinality({row \in agents : row.registered_at > last24h})
    [] q = "emailResult" -> Len(email_queue)
    [] q = "attemptsResult" -> BagCardinality(registration_attempts)
    [] q = "failedResult" -> CountEvents("registration_failed")
    [] q = "errorResult" -> CountEvents("registration_error")
    [] q = "attemptBreakdown" ->
         [e \in {row.event_type : row \in BagToSet(registration_attempts)}
            |-> CountEvents(e)]

\* res.json({...}) of the stats handler from the results of its queries
StatsJson(results) ==
  [status |-> 200, totalAgents |-> results["totalResult"],
   last24Hours |-> results["recentResult"],
   blockchainStatus |-> "pending_audit",
   emailQueueSize |-> results["emailResult"],
   totalAttempts |-> results["attemptsResult"],
   failedAttempts |-> results["failedResult"],
   errorCount |-> results["errorResult"],
   conversionRate |->
     ConversionRate(results["totalResult"], results["attemptsResult"]),
   eventBreakdown |-> results["attemptBreakdown"]]

\* the body of the catch block of the stats handler
StatsErrorResp ==
  [status |-> 500, totalAgents |-> 0, last24Hours |-> 0,
   blockchainStatus |-> "pending_audit", emailQueueSize |-> 0,
   error |-> "Failed to fetch statistics"]

\* the request arrives: last24h is computed and the seven queries are handed
\* to the pool at once
StatsStart ==
  /\ readPc = "idle"
  /\ reads < MaxReads
  /\ reads' = reads + 1
  /\ readPc' = "stats"
  /\ statsResults' = ("last24h" :> (now - 86400000))
  /\ UNCHANGED <<store, register, now, faults, readId, lastRead, lister>>

\* one of the queries settles, each at a moment of its own.  With the last
\* result Promise.all resolves and the response is sent; a query that rejects
\* rejects Promise.all, and the catch block answers.
StatsQueryDone(q) ==
  /\ readPc = "stats"
  /\ q \notin DOMAIN statsResults
  /\ PoolFree > 0
  /\ \/ LET results == statsResults @@ (q :> QueryResult(q, statsResults["last24h"]))
        IN  /\ IF StatsQueries \subseteq DOMAIN results
                 THEN /\ lastRead' = Served("stats", NoId, Undefined,
                                            StatsJson(results))
                      /\ statsResults' = <<>>
                      /\ readPc' = "idle"
                 ELSE /\ statsResults' = results
                      /\ UNCHANGED <<lastRead, readPc>>
            /\ UNCHANGED faults
     \/ /\ StoreFault
        /\ lastRead' = Served("stats", NoId, Undefined, StatsErrorResp)
        /\ statsResults' = <<>>
        /\ readPc' = "idle"
  /\ UNCHANGED <<store, register, now, reads, readId, lister>>

(* ---------------------------- GET /v1/attempts/recent ------------------ *)
\* const limit = Math.min(parseInt(req.query.limit) || 20, 100), for a request
\* without a limit parameter
AttemptsLimit == MathMin(OrElse(parseInt(Undefined), Num(20)), Num(100)).v

\* SELECT event_type, email, agent_name, source, created_at,
\* data->>'error' as error_message: the selected columns of a row
AttemptView(row) ==
  [event_type |-> row.event_type, email |-> row.email,
   agent_name |-> row.agent_name, source |-> row.source,
   error_message |-> row.error]

\* res.json({attempts: result.rows, total: result.rows.length}); the runs of
\* the model keep registration_attempts under AttemptsLimit rows, so that
\* LIMIT drops none of them (the order of the rows is left out)
AttemptsResp ==
  [status |-> 200,
   attempts |-> {AttemptView(row) : row \in BagToSet(registration_attempts)},
   total |-> IF BagCardinality(registration_attempts) < AttemptsLimit
               THEN BagCardinality(registration_attempts) ELSE AttemptsLimit]

AttemptsErrorResp == [status |-> 500, error |-> "Failed to fetch recent attempts"]

\* the whole handler: one pool.query(SELECT) and the response built from its
\* result, sent to any caller
AttemptsRecent ==
  /\ readPc = "idle"
  /\ reads < MaxReads
  /\ reads' = reads + 1
  /\ PoolFree > 0
  /\ \/ /\ lastRead' = Served("attempts", NoId, Undefined, AttemptsResp)
        /\ UNCHANGED faults
     \/ /\ StoreFault
        /\ lastRead' = Served("attempts", NoId, Undefined, AttemptsErrorResp)
  /\ UNCHANGED <<store, register, now, readPc, readId, lister, statsResults>>

(* ---------------------------- src/index.js ----------------------------- *)
(* The server of src/index.js: the same routes over the same tables, every *)
(* statement sent through pool.query, which commits on its own.            *)

\* crypto.randomBytes(3).toString('hex').toUpperCase()
RandomHex ==
  { <<"4", "F", "0", "A", "1", "C">>, <<"B", "2", "9", "E", "7", "D">> }

\* `TEMP-${timestamp}-${randomId}`
IndexAgentId(t, randomId) == [prefix |-> "TEMP", ts |-> t, suffix |-> randomId]

\* agent?.owner
AgentOwner(a) == IF a.t = "object" THEN a.owner ELSE Undefined

\* !(!email || !agent?.name || !agent?.owner)
RequiredFields(b) ==
  Truthy(b.email) /\ Truthy(AgentName(b.agent)) /\ Truthy(AgentOwner(b.agent))

MissingFieldsResp == [status |-> 400, error |-> "Missing required fields"]

\* the body of the catch block, NODE_ENV not being 'development'
RegistrationFailedResp ==
  [status |-> 500, error |-> "Registration failed",
   message |-> "Internal server error"]

\* res.json({agentId, status, blockchain, trustScore, ...})
RegisteredResp(r) ==
  [status |-> 200, agentId |-> tempId[r], agentStatus |-> "registered",
   blockchain |-> "pending", trustScore |-> "TEMP-95%"]

\* values of insertQuery (field req records the request that inserted the row)
IndexAgentsRow(r) ==
  [id |-> tempId[r], internal_id |-> uuidv4(r, "internalId"),
   email |-> body[r].email, status |-> "registered",
   blockchain_status |-> "pending", trust_score |-> "TEMP-95%",
   registered_at |-> timestamp[r],
   agent_data |-> [name |-> body[r].agent.name, description |-> Str(<<>>),
                   owner |-> body[r].agent.owner, ownerUrl |-> Str(<<>>),
                   capabilities |-> <<>>,
                   version |-> Str(<<"1", ".", "0", ".", "0">>)],
   metadata |-> [source |-> "api"], req |-> r]

\* values of emailQuery
IndexEmailRow(r) ==
  [recipient |-> body[r].email,
   subject |-> "Welcome to AstraSync - Agent Registered Successfully",
   template |-> "agent_registration",
   data |-> [agentId |-> tempId[r], agentName |-> body[r].agent.name],
   req |-> r]

\* the request arrives: validation, ids, and the call of
\* pool.query(insertQuery, values)
IndexRegister(r, b) ==
  /\ Arrives(r)
  /\ body' = [body EXCEPT ![r] = b]
  /\ IF ~RequiredFields(b)
       THEN /\ resp' = [resp EXCEPT ![r] = MissingFieldsResp]
            /\ pc' = [pc EXCEPT ![r] = "done"]
            /\ UNCHANGED <<tempId, timestamp>>
       ELSE /\ \E randomId \in RandomHex :
                 tempId' = [tempId EXCEPT ![r] = IndexAgentId(now, randomId)]
            /\ timestamp' = [timestamp EXCEPT ![r] = now]
            /\ pc' = [pc EXCEPT ![r] = "insertQuery"]
            /\ UNCHANGED resp
  /\ UNCHANGED <<store, client, txAgents, txEmail, fault, now, faults, reader>>

\* the catch block of register: 500
IndexRegisterFailed(r, step) ==
  /\ fault' = [fault EXCEPT ![r] = @ \cup {step}]
  /\ resp' = [resp EXCEPT ![r] = RegistrationFailedResp]
  /\ pc' = [pc EXCEPT ![r] = "done"]

\* await pool.query(insertQuery, values) settles: the agents row is committed
\* and the handler calls pool.query(emailQuery, ...)
InsertQueryDone(r) ==
  /\ pc[r] = "insertQuery"
  /\ PoolFree > 0
  /\ \/ /\ ~IdTaken(tempId[r])
        /\ agents' = agents \cup {IndexAgentsRow(r)}
        /\ pc' = [pc EXCEPT ![r] = "emailQuery"]
        /\ UNCHANGED <<resp, fault, faults>>
     \/ /\ IdTaken(tempId[r])
        /\ IndexRegisterFailed(r, "duplicate key")
        /\ UNCHANGED <<agents, faults>>
     \/ /\ StoreFault
        /\ IndexRegisterFailed(r, "insertQuery")
        /\ UNCHANGED agents
  /\ UNCHANGED <<email_queue, registration_attempts, body, client, tempId,
                 timestamp, txAgents, txEmail, now, reader>>

\* await pool.query(emailQuery, ...) settles: the job is committed and the
\* response sent, or the catch block answers 500
EmailQueryDone(r) ==
  /\ pc[r] = "emailQuery"
  /\ PoolFree > 0
  /\ \/ /\ email_queue' = Append(email_queue, IndexEmailRow(r))
        /\ resp' = [resp EXCEPT ![r] = RegisteredResp(r)]
        /\ pc' = [pc EXCEPT ![r] = "done"]
        /\ UNCHANGED <<fault, faults>>
     \/ /\ StoreFault
        /\ IndexRegisterFailed(r, "emailQuery")
        /\ UNCHANGED email_queue
  /\ UNCHANGED <<agents, registration_attempts, body, client, tempId,
                 timestamp, txAgents, txEmail, now, reader>>

\* SELECT * FROM agents WHERE id = $1, with AND email = $2 when the email
\* parameter is truthy
IndexSelectAgent(id, email) ==
  {row \in agents : row.id = id /\ (Truthy(email) => row.email = email)}

\* the response of the agent route when its SELECT succeeds
IndexDetailsResponse(id, email) ==
  IF IndexSelectAgent(id, email) = {}
    THEN [status |-> 404, error |-> "Agent not found"]
    ELSE LET agent == CHOOSE row \in IndexSelectAgent(id, email) : TRUE
         IN  [status |-> 200, id |-> agent.id,
              internalId |-> agent.internal_id,
              agentStatus |-> agent.status,
              blockchainStatus |-> agent.blockchain_status,
              trustScore |-> agent.trust_score,
              registeredAt |-> agent.registered_at,
              agent |-> agent.agent_data, metadata |-> agent.metadata]

IndexDetailsErrorResp ==
  [status |-> 500, error |-> "Failed to retrieve agent details"]

\* the ids a caller of the agent route asks for
IndexIds == {IndexAgentId(0, randomId) : randomId \in RandomHex}

\* the whole handler of GET /v1/agent/:agentId: one pool.query(SELECT) and
\* the response built from its result
IndexGetDetails(id, email) ==
  /\ readPc = "idle"
  /\ reads < MaxReads
  /\ reads' = reads + 1
  /\ PoolFree > 0
  /\ \/ /\ lastRead' = Served("details", id, email,
                              IndexDetailsResponse(id, email))
        /\ UNCHANGED faults
     \/ /\ StoreFault
        /\ lastRead' = Served("details", id, email, IndexDetailsErrorResp)
  /\ UNCHANGED <<store, register, now, readPc, readId, lister, statsResults>>

(* ---------------------------- generateTempId --------------------------- *)
\* const tempId = generateTempId(), on its own: the call of request r made at
\* the time of the clock with one of the values Math.random() can return
GenerateTempId(r, rnd) ==
  /\ tempId[r] = NoId
  /\ tempId' = [tempId EXCEPT ![r] = generateTempId(now, rnd)]
  /\ UNCHANGED <<store, pc, body, client, timestamp, txAgents, txEmail, resp,
                 fault, now, faults, reader>>

(* ---------------------------- the clock -------------------------------- *)
Tick ==
  /\ now < MaxTime
  /\ now' = now + 1
  /\ UNCHANGED <<store, register, faults, reader>>

\* the steps of the register handlers whose bodies are drawn from B, up to
\* the response to an accepted or failed registration
RegisterStep(B) ==
  \/ \E r \in Reqs, b \in B : Connect(r, b)
  \/ \E r \in Reqs : LogAttemptDone(r)
  \/ \E r \in Reqs : Begin(r)
  \/ \E r \in Reqs : InsertAgents(r)
  \/ \E r \in Reqs : InsertEmail(r)
  \/ \E r \in Reqs : Commit(r)
  \/ \E r \in Reqs : LogSuccessDone(r)
  \/ \E r \in Reqs : Rollback(r)
  \/ \E r \in Reqs : LogErrorDone(r)

\* the steps of the verify handler
VerifyStep ==
  \/ \E id \in Ids : VerifyStart(id)
  \/ VerifyLogDone
  \/ VerifyQueryDone

\* the steps of the read handlers
ReadStep ==
  \/ VerifyStep
  \/ \E id \in Ids, email \in QueryEmails : GetDetails(id, email)

\* the steps of the stats handler
StatsStep ==
  \/ StatsStart
  \/ \E q \in StatsQueries : StatsQueryDone(q)

\* the steps of the listRecent handler
ListStep ==
  \/ \E q \in QueryLimits : ListStart(q)
  \/ ListQueryDone
  \/ ListCountDone

\* the whole server
Next ==
  \/ RegisterStep(Bodies)
  \/ \E r \in Reqs : LogFailedDone(r)
  \/ \E r \in Reqs, b \in Bodies : ConnectFail(r, b)
  \/ ReadStep
  \/ ListStep
  \/ Tick

Spec == Init /\ [][Next]_vars

\* a register request that arrives when no other one is being handled
ConnectAlone(r, b) ==
  /\ \A q \in Handlers : pc[q] \in {"idle", "done"}
  /\ Connect(r, b)

\* the steps of register handlers that accept one request after the other
SequentialRegisterStep(B) ==
  \/ \E r \in Reqs, b \in B : ConnectAlone(r, b)
  \/ \E r \in Reqs : LogAttemptDone(r)
  \/ \E r \in Reqs : Begin(r)
  \/ \E r \in Reqs : InsertAgents(r)
  \/ \E r \in Reqs : InsertEmail(r)
  \/ \E r \in Reqs : Commit(r)
  \/ \E r \in Reqs : LogSuccessDone(r)
  \/ \E r \in Reqs : Rollback(r)
  \/ \E r \in Reqs : LogErrorDone(r)

\* accepted registrations alone, with failing store calls
NextRegister ==
  \/ RegisterStep(ValidBodies)
  \/ \E r \in Reqs, b \in ValidBodies : ConnectFail(r, b)

SpecRegister == InitWith(0, MaxReads) /\ [][NextRegister]_vars

\* as many accepted registrations as the pool has clients, over a store whose
\* calls succeed
NextPool ==
  \/ \E r \in Handlers, b \in ValidBodies : Connect(r, b)
  \/ \E r \in Handlers : LogAttemptDone(r)
  \/ \E r \in Handlers : Begin(r)
  \/ \E r \in Handlers : InsertAgents(r)
  \/ \E r \in Handlers : InsertEmail(r)
  \/ \E r \in Handlers : Commit(r)
  \/ \E r \in Handlers : LogSuccessDone(r)
  \/ \E r \in Handlers : Rollback(r)
  \/ \E r \in Handlers : LogErrorDone(r)

SpecPool == InitWith(MaxFaults, MaxReads) /\ [][NextPool]_vars

\* registrations of every kind of body, with failing store calls
NextValidation ==
  \/ RegisterStep(Bodies)
  \/ \E r \in Reqs : LogFailedDone(r)

SpecValidation == InitWith(0, MaxReads) /\ [][NextValidation]_vars

\* accepted registrations and verify requests over a store whose calls
\* succeed
NextRead ==
  \/ RegisterStep(ValidBodies)
  \/ VerifyStep

SpecRead == InitWith(MaxFaults, 0) /\ [][NextRead]_vars

\* accepted registrations and detail requests over a store whose calls
\* succeed
NextDetails ==
  \/ RegisterStep(ValidBodies)
  \/ \E id \in Ids, email \in QueryEmails : GetDetails(id, email)

SpecDetails == InitWith(MaxFaults, 0) /\ [][NextDetails]_vars

\* registrations of every kind of body, one after the other, and detail
\* requests over a store whose calls succeed
NextRefuse ==
  \/ SequentialRegisterStep(Bodies)
  \/ \E r \in Reqs : LogFailedDone(r)
  \/ \E id \in Ids, email \in QueryEmails : GetDetails(id, email)

SpecRefuse == InitWith(MaxFaults, 0) /\ [][NextRefuse]_vars

\* registrations one after the other and reads of the three kinds over a
\* store whose calls succeed, with the clock running
NextQuery ==
  \/ SequentialRegisterStep(ValidBodies)
  \/ ReadStep
  \/ ListStep
  \/ Tick

SpecQuery == InitWith(MaxFaults, 0) /\ [][NextQuery]_vars

\* registrations one after the other and reads of the three kinds over a
\* store whose calls succeed
NextReads ==
  \/ SequentialRegisterStep(ValidBodies)
  \/ ReadStep
  \/ ListStep

SpecReads == InitWith(MaxFaults, 0) /\ [][NextReads]_vars

\* registrations one after the other and reads of the three kinds, with
\* failing store calls
NextDegraded ==
  \/ SequentialRegisterStep(ValidBodies)
  \/ ReadStep
  \/ ListStep

SpecDegraded == InitWith(0, 0) /\ [][NextDegraded]_vars

\* accepted registrations that overlap in time over a store whose calls
\* succeed, with the clock running
NextClock ==
  \/ RegisterStep(ValidBodies)
  \/ Tick

SpecClock == InitWith(MaxFaults, MaxReads) /\ [][NextClock]_vars

\* registrations one after the other and requests for the recent attempts,
\* with failing store calls
NextAttempts ==
  \/ SequentialRegisterStep(ValidBodies)
  \/ AttemptsRecent

SpecAttempts == InitWith(0, 0) /\ [][NextAttempts]_vars

\* registrations of every kind of body, also with values that are not
\* strings, one after the other over a store whose calls succeed
NextMalformed ==
  \/ SequentialRegisterStep(Bodies \cup MalformedBodies)
  \/ \E r \in Reqs : LogFailedDone(r)

SpecMalformed == InitWith(MaxFaults, MaxReads) /\ [][NextMalformed]_vars

\* calls of generateTempId at every time of the clock
NextTempId ==
  \/ \E r \in Handlers, rnd \in RandomValues : GenerateTempId(r, rnd)
  \/ Tick

SpecTempId == InitWith(MaxFaults, MaxReads) /\ [][NextTempId]_vars

\* registrations one after the other and stats requests over a store whose
\* calls succeed
NextStats ==
  \/ SequentialRegisterStep(ValidBodies)
  \/ StatsStep

SpecStats == InitWith(MaxFaults, 0) /\ [][NextStats]_vars

\* the server of src/index.js: registrations and detail requests, with
\* failing store calls
NextIndex ==
  \/ \E r \in Reqs, b \in Bodies : IndexRegister(r, b)
  \/ \E r \in Reqs : InsertQueryDone(r)
  \/ \E r \in Reqs : EmailQueryDone(r)
  \/ \E id \in IndexIds, email \in QueryEmails : IndexGetDetails(id, email)

SpecIndex == InitWith(0, 0) /\ [][NextIndex]_vars

(* ======================================================================= *)
(* Properties                                                              *)
(* ======================================================================= *)
\* the committed rows request r has inserted
AgentsOf(r) == {row \in agents : row.req = r}
EmailOf(r) == {i \in 1..Len(email_queue) : email_queue[i].req = r}

\* the committed email_queue rows whose data.agentId is id
JobsFor(id) == {i \in 1..Len(email_queue) : email_queue[i].data.agentId = id}

\* request r takes a step
Steps(r) == pc'[r] # pc[r]

\* C1: the agents row and the email_queue row of a registration are committed
\* together or not at all: in no state is one of the two rows of a request
\* committed and the other not, whichever store step of the request fails.
C1_CommittedTogether ==
  \A r \in Reqs : (AgentsOf(r) = {}) <=> (EmailOf(r) = {})

\* a registration that failed at the email_queue INSERT has ended, next to a
\* registration that was committed
C1_Witness ==
  \E r, q \in Reqs :
    /\ pc[r] = "done" /\ fault[r] = {"INSERT_email"}
    /\ AgentsOf(q) # {} /\ EmailOf(q) # {}

\* C2: every committed agents row has exactly one email_queue row whose
\* data.agentId is its id, every email_queue row references the id of a
\* committed agents row, and the two tables have the same number of rows.
C2_OneJobPerRecord ==
  /\ \A row \in agents : Cardinality(JobsFor(row.id)) = 1
  /\ \A i \in 1..Len(email_queue) :
       \E row \in agents : row.id = email_queue[i].data.agentId
  /\ Len(email_queue) = Cardinality(agents)

\* one request was registered and another one, which drew the same id, failed
\* in the store
C2_Witness ==
  \E r, q \in Reqs :
    /\ resp[r].status = 201 /\ resp[q].status = 500
    /\ tempId[q] = tempId[r]
    /\ Cardinality(agents) = 1

\* C3: a read never returns a record whose notification job is not committed:
\* every row a read-committed query can return or count has its email_queue
\* row, and the record verify or getDetails last found (200, or 403 for a
\* wrong email) has its email_queue row.
C3_ReaderSeesJob ==
  /\ \A row \in agents : JobsFor(row.id) # {}
  /\ lastRead.res.status \in {200, 403} => JobsFor(lastRead.id) # {}

\* verify has answered 200 while another registration is inside its
\* transaction
C3_Witness ==
  /\ lastRead.op = "verify" /\ lastRead.res.status = 200
  /\ \E r \in Reqs : pc[r] = "COMMIT" /\ txAgents[r] # {}

\* C4: once register has answered 201 with agentId X, verify(X) with a healthy
\* store answers 200 with status "registered" and the name and owner of the
\* request.
C4_VerifyAfterRegister ==
  \A r \in Reqs :
    resp[r].status = 201 =>
      LET v == VerifyResponse(resp[r].agentId)
      IN  /\ v.status = 200
          /\ v.agentStatus = "registered"
          /\ v.agent.name = body[r].agent.name
          /\ v.agent.owner = body[r].agent.owner
          /\ (lastRead.op = "verify" /\ lastRead.id = resp[r].agentId
              /\ lastRead.res.status = 200) => lastRead.res = v

\* verify has answered 200 for the id of a request answered 201
C4_Witness ==
  \E r \in Reqs :
    /\ resp[r].status = 201
    /\ lastRead.op = "verify" /\ lastRead.id = resp[r].agentId
    /\ lastRead.res.status = 200

\* C5: a request answered 201 with agentId X has its agents row and its
\* email_queue row committed, and a request answered 500 has no committed row
\* in agents or email_queue.
C5_CommitBeforeCreated ==
  \A r \in Reqs :
    /\ resp[r].status = 201 =>
         /\ \E row \in AgentsOf(r) : row.id = resp[r].agentId
         /\ \E i \in EmailOf(r) : email_queue[i].data.agentId = resp[r].agentId
    /\ resp[r].status = 500 => AgentsOf(r) = {} /\ EmailOf(r) = {}

\* a request whose COMMIT failed was answered 500 next to a request answered
\* 201
C5_Witness ==
  \E r, q \in Reqs :
    /\ resp[r].status = 500 /\ fault[r] = {"COMMIT"}
    /\ resp[q].status = 201

\* the value is absent or the empty string
Missing(x) == x.t # "string" \/ Len(x.v) = 0

\* the email is absent, empty or a string without '@'
EmailLacksAt(email) ==
  Missing(email) \/ \A i \in 1..Len(email.v) : email.v[i] # "@"

\* the agent object is absent or lacks name or lacks owner
AgentIncomplete(agent) ==
  agent.t # "object" \/ Missing(agent.name) \/ Missing(agent.owner)

\* the ids for which verify answers 200
VerifiableIds == {id \in Ids : VerifyResponse(id).status = 200}

\* C6: a register request whose email is absent, empty or without '@' is
\* answered with the 400 invalid-email response and with no other response,
\* and no step of it inserts a row into agents or email_queue or changes the
\* set of ids for which verify answers 200.
C6_InvalidEmailRejected ==
  [][\A r \in Reqs :
       (Steps(r) /\ EmailLacksAt(body'[r].email)) =>
         /\ resp'[r] \in {NoResp, InvalidEmailResp}
         /\ (pc'[r] = "done" /\ client'[r] = "released") => resp'[r] = InvalidEmailResp
         /\ agents' = agents /\ email_queue' = email_queue
         /\ txAgents'[r] = {} /\ txEmail'[r] = <<>>
         /\ VerifiableIds' = VerifiableIds]_vars

\* a request with an email without '@' was answered 400 while a record exists
C6_Witness ==
  \E r \in Reqs :
    /\ body[r].email = Str(<<"a">>)
    /\ pc[r] = "done" /\ resp[r] = InvalidEmailResp
    /\ VerifiableIds # {}

\* C7: a register request with a valid email whose agent is absent or lacks
\* name or owner is answered with the 400 incomplete-agent-data response and
\* with no other response, and no step of it inserts a row into agents or
\* email_queue.
C7_IncompleteAgentRejected ==
  [][\A r \in Reqs :
       (Steps(r) /\ ~EmailLacksAt(body'[r].email) /\ AgentIncomplete(body'[r].agent)) =>
         /\ resp'[r] \in {NoResp, IncompleteAgentResp}
         /\ (pc'[r] = "done" /\ client'[r] = "released") => resp'[r] = IncompleteAgentResp
         /\ agents' = agents /\ email_queue' = email_queue
         /\ txAgents'[r] = {} /\ txEmail'[r] = <<>>]_vars

\* a request without agent.owner was answered 400 while a record exists
C7_Witness ==
  \E r \in Reqs :
    /\ body[r].agent = Agent(Str(<<"B">>), Undefined)
    /\ pc[r] = "done" /\ resp[r] = IncompleteAgentResp
    /\ agents # {}

\* the body fails the validation of register
ValidationFails(b) == EmailLacksAt(b.email) \/ AgentIncomplete(b.agent)

\* the step is taken by getDetails and answers 400 or 403
DetailsRefused ==
  /\ reads' # reads /\ readPc' = "idle"
  /\ lastRead'.op = "details" /\ lastRead'.res.status \in {400, 403}

\* the step leaves registration_attempts alone or adds one row that logAttempt
\* writes for a rejected registration
OnlyAttemptLogged ==
  \/ registration_attempts' = registration_attempts
  \/ \E row \in BagToSet(registration_attempts') :
       /\ row.event_type \in {"registration_attempt", "registration_failed"}
       /\ registration_attempts' = registration_attempts (+) SetToBag({row})

C9_FailureAnswered500 ==
  \A r \in Reqs :
    (pc[r] = "done" /\ fault[r] # {}) =>
      /\ resp[r].status = 500
      /\ resp[r].requestId = uuidv4(r, "requestId")

\* every pool client is held by a register handler that waits in logAttempt
\* for pool.query to get a further client
PoolExhaustedByWaiters ==
  /\ PoolFree = 0
  /\ \A r \in Handlers :
       client[r] = "held" =>
         pc[r] \in {"log_attempt", "log_failed_email", "log_failed_agent",
                    "log_success", "log_error"}

\* C10 as stated: no state is reachable in which every pool client is held by
\* a register handler that is itself waiting for a further pool connection.
C10_NoPoolDeadlock == ~PoolExhaustedByWaiters

\* the step is a whole getDetails request
DetailsStep == reads' = reads + 1 /\ readPc' = readPc /\ lastRead'.op = "details"

\* the two characters are the same letter in either case
SameLetter(c, d) == c = d \/ {c, d} = {"a", "A"} \/ {c, d} = {"b", "B"}

\* the two strings are equal ignoring letter case
EqualIgnoringCase(x, y) ==
  /\ Len(x.v) = Len(y.v)
  /\ \A i \in 1..Len(x.v) : SameLetter(x.v[i], y.v[i])

\* the response is the full view of the row
FullView(res, row) ==
  /\ res.status = 200
  /\ res.id = row.id /\ res.internalId = row.internal_id
  /\ res.email = row.email /\ res.agentStatus = row.status
  /\ res.blockchainStatus = row.blockchain_status
  /\ res.trustScore = row.trust_score /\ res.registeredAt = row.registered_at
  /\ res.agent = row.agent_data /\ res.metadata = row.metadata

\* C11: getDetails on an existing record with a non-empty email is answered
\* 200 with the full view when the email equals the stored email ignoring
\* letter case, and 403 (an error body without any field of the record) in
\* every other case.
C11_OwnerEmailDecides ==
  [][(DetailsStep /\ ~Missing(lastRead'.email)) =>
       \A row \in agents :
         row.id = lastRead'.id =>
           IF EqualIgnoringCase(lastRead'.email, row.email)
             THEN FullView(lastRead'.res, row)
             ELSE lastRead'.res = [status |-> 403, error |-> "Unauthorized"]]_vars

\* getDetails has answered 200 to an email that differs from the stored one
\* in letter case only
C11_Witness ==
  /\ lastRead.op = "details" /\ lastRead.res.status = 200
  /\ lastRead.res.email # lastRead.email

\* no record has the id the getDetails request of this step asks for
DetailsOfAbsentId == DetailsStep /\ \A row \in agents : row.id # lastRead'.id

\* C12 as stated: getDetails on an id that has no record is answered 404 for
\* every value of the email parameter, an absent or empty one included.
C12_AbsentIdIs404 ==
  [][DetailsOfAbsentId => lastRead'.res.status = 404]_vars

\* C12 as amended: getDetails on an id that has no record is answered 404
\* for every non-empty email, and 400 "Email required" when the email is
\* absent or empty.
C12_AbsentIdIs404OrEmailRequired ==
  [][DetailsOfAbsentId =>
       IF Missing(lastRead'.email)
         THEN lastRead'.res = [status |-> 400, error |-> "Email required"]
         ELSE lastRead'.res = [status |-> 404, error |-> "Agent not found"]]_vars

\* getDetails has answered 404 for an id without record while another id has
\* a record
C12_Witness ==
  /\ lastRead.op = "details" /\ lastRead.res.status = 404
  /\ ~Missing(lastRead.email)
  /\ agents # {} /\ \A row \in agents : row.id # lastRead.id

\* the rows that differ from row at most in email, internal_id and metadata
PrivateVariants(row) ==
  { [row EXCEPT !.email = e, !.internal_id = i, !.metadata = m] :
      e \in {row.email, Str(<<"z", "@">>)},
      i \in {row.internal_id, <<"uuid", 0, "other">>},
      m \in {row.metadata, [registrationMethod |-> "web", source |-> "sdk"]} }

\* C13: the verify response does not depend on a record's email, internalId
\* or metadata: rows that differ only in these fields give the same response,
\* the response has no field of these names, no string of it is the email,
\* and the response verify has sent is that response.
C13_VerifyHidesPrivateFields ==
  /\ \A row \in agents :
       LET v == VerifyView(row)
       IN  /\ \A other \in PrivateVariants(row) : VerifyView(other) = v
           /\ (DOMAIN v \cup DOMAIN v.agent)
                \cap {"email", "internalId", "internal_id", "metadata"} = {}
           /\ \A f \in DOMAIN v.agent : v.agent[f] # row.email
  /\ (lastRead.op = "verify" /\ lastRead.res.status = 200) =>
       \A row \in SelectAgent(lastRead.id) : lastRead.res = VerifyView(row)

\* verify has answered 200 for one of two records that differ in their email
C13_Witness ==
  /\ lastRead.op = "verify" /\ lastRead.res.status = 200
  /\ \E row, other \in agents : row.id = lastRead.id /\ other.email # row.email

\* the step sends the response of a verify, getDetails or listRecent request
ReadAnswered == (readPc # "idle" /\ readPc' = "idle") \/ DetailsStep

\* C14 as stated: verify, getDetails and listRecent send 404 only when the
\* store query succeeded and found no row for the id, and when a store query
\* of one of them fails the response has a 5xx status.
C14_MissingDistinctFromDegraded ==
  [][ReadAnswered =>
       /\ lastRead'.res.status = 404 =>
            faults' = faults /\ \A row \in agents : row.id # lastRead'.id
       /\ faults' # faults => lastRead'.res.status >= 500]_vars

\* the step belongs to a verify, getDetails or listRecent handler
ReadTaken == reader' # reader

IsPositiveInteger(x) ==
  /\ x.t = "string" /\ x.v # <<>>
  /\ \A i \in 1..Len(x.v) : DigitValue(x.v[i]) >= 0
  /\ DecimalValue(x.v, Len(x.v)) > 0

\* the effective limit the claim gives for a limit parameter
ClaimedLimit(x) ==
  IF IsPositiveInteger(x)
    THEN (IF DecimalValue(x.v, Len(x.v)) < 100 THEN DecimalValue(x.v, Len(x.v)) ELSE 100)
    ELSE 10

\* the first query of listRecent settles in this step
ListQueried == readPc = "list_query" /\ readPc' # "list_query"

\* the step sends the response of listRecent
ListAnswered == readPc \in {"list_query", "list_count"} /\ readPc' = "idle"

\* C16 as stated: when the store query of listRecent is not failed by the
\* store, the number of agents listed is the smaller of the number of records
\* and the effective limit, which is 10 for an absent, non-numeric, zero or
\* negative limit parameter and min(limit, 100) otherwise.
C16_LimitClampedAndDefaulted ==
  [][ListQueried =>
       LET n == Cardinality(agents)
           want == IF ClaimedLimit(queryLimit) < n THEN ClaimedLimit(queryLimit) ELSE n
       IN  IF readPc' = "list_count"
             THEN Len(recentAgents') = want
             ELSE Len(lastRead'.res.agents) = want]_vars

\* the summaries are in non-increasing registeredAt order, without repetition
SortedDistinct(list) ==
  \A i, j \in 1..Len(list) :
    i < j => /\ list[i].registeredAt >= list[j].registeredAt
             /\ list[i].agentId # list[j].agentId

\* the summaries are those of records, and no record left out is more recent
\* than a listed one
GreatestOf(list, rows) ==
  /\ \A i \in 1..Len(list) : \E row \in rows : Summary(row) = list[i]
  /\ \A row \in rows :
       (\A i \in 1..Len(list) : list[i].agentId # row.id) =>
         \A i \in 1..Len(list) : list[i].registeredAt >= row.registered_at

\* C17 as stated: the list listRecent reads is made of the records with the
\* greatest registeredAt values, in non-increasing order and without
\* repetition, and the response sent while no registration is in flight has
\* that order, 'returned' equal to the length of its list and 'total' equal
\* to the number of agents rows.
C17_RecentOrderedAndCounted ==
  [][/\ (ListQueried /\ readPc' = "list_count") =>
          SortedDistinct(recentAgents') /\ GreatestOf(recentAgents', agents)
     /\ (ListAnswered /\ \A r \in Reqs : pc[r] \in {"idle", "done"}) =>
          /\ SortedDistinct(lastRead'.res.agents)
          /\ lastRead'.res.returned = Len(lastRead'.res.agents)
          /\ lastRead'.res.total = Cardinality(agents)]_vars

\* both requests have ended and their payloads differ
BothEnded(r, q) ==
  r # q /\ pc[r] = "done" /\ pc[q] = "done" /\ body[r] # body[q]

\* the handler of request r is running
InFlight(r) == pc[r] \notin {"idle", "done"}

\* C18 as stated: two register requests with valid, distinct payloads that
\* are handled at the same time have distinct agentIds and neither of them
\* fails: both are on the way to 201.
C18_BothCreated ==
  \A r, q \in Reqs :
    (r # q /\ InFlight(r) /\ InFlight(q) /\ body[r] # body[q]) =>
      /\ (tempId[r] # NoId /\ tempId[q] # NoId) => tempId[r] # tempId[q]
      /\ pc[r] \notin {"ROLLBACK", "log_error"}

\* the agents INSERT of request r is rejected in this step without a failure
\* of the store call
InsertRejected(r) ==
  pc[r] = "INSERT_agents" /\ pc'[r] = "ROLLBACK" /\ faults' = faults

\* what two ended requests with distinct payloads have come to
PairOutcome(r, q) ==
  BothEnded(r, q) =>
    /\ resp[r].status \in {201, 500}
    /\ resp[r].status = 500 =>
         \E row \in agents : row.id = tempId[r] /\ row.req # r
    /\ (resp[r].status = 201 /\ resp[q].status = 201) =>
         /\ resp[r].agentId # resp[q].agentId
         /\ Cardinality(JobsFor(resp[r].agentId)) = 1
         /\ EmailOf(r) \cap EmailOf(q) = {}

\* C18 as amended: of two register requests with valid, distinct payloads
\* over a healthy store, one is answered 500 only when its id is the id of a
\* record another request has committed; the requests answered 201 have
\* distinct agentIds and one email_queue row each; and an INSERT is rejected
\* only for a committed row, never for a row of an open transaction.
C18_DistinctOrConflict ==
  [][/\ \A r \in Reqs :
          InsertRejected(r) =>
            \E row \in agents : row.id = tempId[r] /\ row.req # r
     /\ (\A r, q \in Reqs : PairOutcome(r, q))']_vars

\* two requests with distinct payloads and distinct ids are both inside their
\* transactions, each with its rows inserted and not committed
C18_Witness ==
  \E r, q \in Reqs :
    /\ r # q /\ body[r] # body[q] /\ tempId[r] # tempId[q]
    /\ pc[r] = "COMMIT" /\ pc[q] = "COMMIT"
    /\ txAgents[r] # {} /\ txAgents[q] # {}

\* request r has generated an id that a committed record of another request
\* has
Collides(r) ==
  tempId[r] # NoId /\ \E row \in agents : row.id = tempId[r] /\ row.req # r

\* C19: no two agents rows share an id; a request whose generated id is the
\* id of a committed record is never answered 201 and is answered 500 when
\* its handler ends after the ROLLBACK, it commits no row, and the record
\* keeps its single agents row and its single email_queue row.
C19_UniqueIdOrConflict ==
  /\ \A row, other \in agents : row.id = other.id => row = other
  /\ \A r \in Reqs :
       Collides(r) =>
         /\ resp[r].status \in {0, 500}
         /\ (pc[r] = "done" /\ "ROLLBACK" \notin fault[r]) => resp[r].status = 500
         /\ AgentsOf(r) = {} /\ EmailOf(r) = {}
         /\ Cardinality(JobsFor(tempId[r])) = 1

\* a request whose INSERT hit the primary key was answered 500 and the record
\* of the other request has its one job
C19_Witness ==
  \E r \in Reqs :
    /\ Collides(r) /\ fault[r] = {"INSERT_agents"}
    /\ resp[r].status = 500
    /\ Cardinality(JobsFor(tempId[r])) = 1

\* C20: a committed agents row and a committed email_queue row stay in the
\* store with the same field values in every later state, and every agents
\* row has status "registered" and blockchain_status "pending".
C20_AppendOnly ==
  [][/\ agents \subseteq agents'
     /\ Len(email_queue) <= Len(email_queue')
     /\ \A i \in 1..Len(email_queue) : email_queue'[i] = email_queue[i]
     /\ \A row \in agents' :
          row.status = "registered" /\ row.blockchain_status = "pending"]_vars

\* a second record was committed after the first one
C20_Witness ==
  /\ Cardinality(agents) = 2 /\ Len(email_queue) = 2
  /\ \A row \in agents : row.blockchain_status = "pending"

\* the committed agents rows of the i-th committed transaction (email_queue
\* holds one job per committed transaction, in commit order)
CommittedAt(i) == {row \in agents : row.id = email_queue[i].data.agentId}

\* C21: registeredAt reflects insertion order: of two records, the one whose
\* transaction committed later has a registeredAt that is not earlier, also
\* when the two register requests overlap in time.
C21_RegisteredAtFollowsCommitOrder ==
  \A i, j \in 1..Len(email_queue) :
    i < j =>
      \A first \in CommittedAt(i), second \in CommittedAt(j) :
        first.registered_at <= second.registered_at

\* the emails and error messages a response of /v1/attempts/recent carries
AttemptsServed ==
  IF lastRead.op = "attempts" /\ lastRead.res.status = 200
    THEN lastRead.res.attempts ELSE {}

\* C22: the internal cause of a failed registration is never disclosed to a
\* caller: the body of the 500 response is the same for every underlying
\* error apart from the requestId, and no later response of any endpoint
\* carries the error's message.
C22_CauseNotDisclosed ==
  /\ \A r \in Reqs :
       resp[r].status = 500 => resp[r] = ServerErrorResp(resp[r].requestId)
  /\ \A row \in AttemptsServed : row.error_message = Null

\* x is a non-empty string
NonEmptyString(x) == x.t = "string" /\ x.v # <<>>

\* email is a non-empty string containing '@', and agent.name and agent.owner
\* are non-empty strings
WellFormed(b) ==
  /\ NonEmptyString(b.email) /\ Includes(b.email, "@")
  /\ b.agent.t = "object"
  /\ NonEmptyString(b.agent.name) /\ NonEmptyString(b.agent.owner)

\* C23: register accepts only well-formed input: a request is answered 201
\* only if email is a non-empty string containing '@' and agent.name and
\* agent.owner are non-empty strings; every other shape of the three inputs
\* is answered 400, never 201 and never 500.
C23_OnlyWellFormedAccepted ==
  \A r \in Reqs :
    resp[r] # NoResp =>
      /\ resp[r].status = 201 => WellFormed(body[r])
      /\ ~WellFormed(body[r]) => resp[r].status = 400

\* the characters 0-9 and A-Z
UpperAlphanumeric ==
  {"0", "1", "2", "3", "4", "5", "6", "7", "8", "9", "A", "B", "C", "D", "E",
   "F", "G", "H", "I", "J", "K", "L", "M", "N", "O", "P", "Q", "R", "S", "T",
   "U", "V", "W", "X", "Y", "Z"}

\* C24: every id generateTempId returns is TEMP-<millisecond timestamp>-
\* <suffix> with a suffix of exactly 6 characters from 0-9 and A-Z, for
\* every value Math.random() can return.
C24_TempIdForm ==
  \A r \in Handlers :
    tempId[r] # NoId =>
      /\ tempId[r].prefix = "TEMP"
      /\ tempId[r].ts \in Nat
      /\ Len(tempId[r].suffix) = 6
      /\ \A i \in 1..Len(tempId[r].suffix) :
           tempId[r].suffix[i] \in UpperAlphanumeric

\* C25: each successful /v1/stats response is consistent with the store:
\* totalAgents and emailQueueSize are the row counts of one committed store
\* state, hence emailQueueSize = totalAgents and last24Hours <= totalAgents,
\* also while registrations commit concurrently.
C25_StatsConsistent ==
  (lastRead.op = "stats" /\ lastRead.res.status = 200) =>
    /\ lastRead.res.emailQueueSize = lastRead.res.totalAgents
    /\ lastRead.res.last24Hours <= lastRead.res.totalAgents

\* C26: in the register handler of the server without transactions, the
\* agents insert and the email_queue insert form one all-or-nothing unit:
\* when the email_queue insert fails and the request is answered 500, no
\* agents row of that request remains visible, so no record without a
\* notification job is reachable.
C26_InsertsAllOrNothing ==
  \A r \in Reqs :
    (pc[r] = "done" /\ resp[r].status = 500) =>
      /\ AgentsOf(r) = {}
      /\ \A row \in agents : JobsFor(row.id) # {} \/ pc[row.req] # "done"

\* C27: in the agent route of the server without transactions, the full
\* view is returned only to a request whose email parameter matches the
\* record's email: a request without an email parameter is answered 400, a
\* request with a non-matching email on an existing id is answered 403, and
\* a request for an absent id is answered 404 (a step whose SELECT is
\* rejected by the store is left aside).
C27_FullViewOnlyToOwner ==
  [][(DetailsStep /\ faults' = faults) =>
       /\ Missing(lastRead'.email) => lastRead'.res.status = 400
       /\ (/\ ~Missing(lastRead'.email)
           /\ SelectAgent(lastRead'.id) # {}
           /\ \A row \in SelectAgent(lastRead'.id) : row.email # lastRead'.email)
             => lastRead'.res.status = 403
       /\ (~Missing(lastRead'.email) /\ SelectAgent(lastRead'.id) = {})
             => lastRead'.res.status = 404
       /\ lastRead'.res.status = 200 =>
             \E row \in SelectAgent(lastRead'.id) : row.email = lastRead'.email]_vars

\* C28: a record's ownerEmail stays confidential: a caller who did not itself
\* supply email E in a request never receives E in a response.  The caller
\* of /v1/attempts/recent supplies no email, and the one of getDetails
\* supplies the email parameter.
C28_OwnerEmailConfidential ==
  /\ \A row \in AttemptsServed : \A agent \in agents : row.email # agent.email
  /\ (lastRead.op = "details" /\ lastRead.res.status = 200) =>
       EqualIgnoringCase(lastRead.email, lastRead.res.email)

\* C29: every register request that acquired a pool client releases it
\* exactly once before the handler ends, on every path: a client is released
\* only by the step that ends the handler holding it, a handler that has
\* ended holds none, and when no request is being handled no client is
\* checked out.
C29_ClientReleasedOnce ==
  [][\A r \in Reqs :
       /\ client'[r] # client[r] =>
            \/ client[r] = "none" /\ client'[r] = "held" /\ pc[r] = "idle"
            \/ client[r] = "held" /\ client'[r] = "released" /\ pc'[r] = "done"
       /\ (pc[r] # "done" /\ pc'[r] = "done") =>
            (client[r] = "held" => client'[r] = "released")
       /\ (\A q \in Handlers : pc'[q] \in {"idle", "done"}) =>
            (PoolFree = PoolSize)']_vars

\* every request has ended, each on a path of its own, one of them by a
\* ROLLBACK that failed, and no client is checked out
C29_Witness ==
  /\ \A r \in Reqs : pc[r] = "done" /\ client[r] = "released"
  /\ \E r \in Reqs : "ROLLBACK" \in fault[r]
  /\ \E r \in Reqs : resp[r].status = 201
  /\ PoolFree = PoolSize

====
